---- MODULE Spec2Model ----
(***************************************************************************)
(* A model of find_emails.py (EmailDomainSearcher): one process that       *)
(* validates the search root, loads the exclusion file, walks the tree,    *)
(* classifies and scans every yielded file, and writes the sorted result   *)
(* list to the output file.                                                *)
(*                                                                         *)
(* Text is modelled character by character: a string is a sequence of      *)
(* one-character strings, a file's content is a sequence of byte symbols   *)
(* ("NUL" is the byte 0x00, "BAD" a byte that is invalid in UTF-8), and a  *)
(* path is the sequence of its components below "/".                       *)
(***************************************************************************)
EXTENDS Integers, Sequences, FiniteSets, TLC

\* ------------------------------------------------------------------
\* Bounds of the model
\* ------------------------------------------------------------------

\* How many times the tool is run in succession on the same filesystem.
MaxRuns == 2

\* How many lines the generated exclusion files have at most.
MaxLines == 2

\* ------------------------------------------------------------------
\* Characters and strings
\* ------------------------------------------------------------------

\* The characters of the model in ascending code-point order (Python compares
\* str by code point); "NUL" stands for U+0000 and "LAT" for the character
\* U+00FF that latin-1 decodes the byte "BAD" (0xFF) to.
CodePoints ==
  << "NUL", "\n", " ", "#", "*", "-", ".", "/", "2", "3", "4", "7", "@",
     "A", "B", "C", "D", "E", "F", "G", "H", "I", "J", "K", "L", "M",
     "N", "O", "P", "Q", "R", "S", "T", "U", "V", "W", "X", "Y", "Z", "_",
     "a", "b", "c", "d", "e", "f", "g", "h", "i", "j", "k", "l", "m",
     "n", "o", "p", "q", "r", "s", "t", "u", "v", "w", "x", "y", "z", "LAT" >>

ord == [c \in {CodePoints[i] : i \in 1..Len(CodePoints)} |->
          CHOOSE i \in 1..Len(CodePoints) : CodePoints[i] = c]

UpperCase ==
  << "A", "B", "C", "D", "E", "F", "G", "H", "I", "J", "K", "L", "M",
     "N", "O", "P", "Q", "R", "S", "T", "U", "V", "W", "X", "Y", "Z" >>

LowerCase ==
  << "a", "b", "c", "d", "e", "f", "g", "h", "i", "j", "k", "l", "m",
     "n", "o", "p", "q", "r", "s", "t", "u", "v", "w", "x", "y", "z" >>

\* str.lower() on one character.
lower_char(c) ==
  IF \E i \in 1..Len(UpperCase) : UpperCase[i] = c
  THEN LowerCase[CHOOSE i \in 1..Len(UpperCase) : UpperCase[i] = c]
  ELSE c

\* str.lower()
lower(s) == [i \in 1..Len(s) |-> lower_char(s[i])]

\* Python's `a < b` on two str: the first differing character decides, a proper
\* prefix is smaller.
RECURSIVE str_lt(_, _)
str_lt(a, b) ==
  IF b = <<>> THEN FALSE
  ELSE IF a = <<>> THEN TRUE
  ELSE IF Head(a) = Head(b) THEN str_lt(Tail(a), Tail(b))
  ELSE ord[Head(a)] < ord[Head(b)]

\* `needle in hay` for two str (plain substring containment, case-sensitive).
contains(hay, needle) ==
  \E i \in 0..(Len(hay) - Len(needle)) :
    \A j \in 1..Len(needle) : hay[i + j] = needle[j]

\* str.startswith
startswith(s, p) ==
  /\ Len(s) >= Len(p)
  /\ \A j \in 1..Len(p) : s[j] = p[j]

Whitespace == {" ", "\n"}

\* str.strip(): leading and trailing whitespace removed.
RECURSIVE lstrip(_)
lstrip(s) ==
  IF s # <<>> /\ Head(s) \in Whitespace THEN lstrip(Tail(s)) ELSE s

RECURSIVE rstrip(_)
rstrip(s) ==
  IF s # <<>> /\ s[Len(s)] \in Whitespace
  THEN rstrip(SubSeq(s, 1, Len(s) - 1))
  ELSE s

strip(s) == rstrip(lstrip(s))

\* The elements of a sequence.
Range(s) == {s[i] : i \in 1..Len(s)}

\* ------------------------------------------------------------------
\* Paths (pathlib.Path)
\* ------------------------------------------------------------------

\* Path.name: the final component.
name_of(p) == p[Len(p)]

\* str.rfind('.') as a 1-based position, 0 when there is no dot.
rfind_dot(n) ==
  IF \E i \in 1..Len(n) : n[i] = "."
  THEN CHOOSE i \in 1..Len(n) :
         n[i] = "." /\ \A j \in (i + 1)..Len(n) : n[j] # "."
  ELSE 0

\* Path.suffix: the part of the name from its last dot, unless that dot is the
\* first or the last character of the name.
suffix(n) ==
  LET i == rfind_dot(n)
  IN IF 1 < i /\ i < Len(n) THEN SubSeq(n, i, Len(n)) ELSE <<>>

\* str(path): "/" before every component.
RECURSIVE path_str(_)
path_str(p) ==
  IF p = <<>> THEN <<>> ELSE <<"/">> \o Head(p) \o path_str(Tail(p))

\* Path.__lt__: the component lists are compared as Python lists of str.
RECURSIVE path_lt(_, _)
path_lt(p, q) ==
  IF q = <<>> THEN FALSE
  ELSE IF p = <<>> THEN TRUE
  ELSE IF Head(p) = Head(q) THEN path_lt(Tail(p), Tail(q))
  ELSE str_lt(Head(p), Head(q))

\* sorted(set(xs)) on a list of paths.
RECURSIVE sorted_set(_)
sorted_set(S) ==
  IF S = {} THEN <<>>
  ELSE LET m == CHOOSE x \in S : \A y \in S \ {x} : path_lt(x, y)
       IN <<m>> \o sorted_set(S \ {m})

\* ------------------------------------------------------------------
\* Program constants
\* ------------------------------------------------------------------

\* self.binary_extensions
binary_extensions ==
  {
    <<".","e","x","e">>, <<".","b","i","n">>, <<".","s","o">>, <<".","d","l","l">>,
    <<".","d","y","l","i","b">>, <<".","a">>, <<".","o">>, <<".","o","b","j">>,
    <<".","c","l","a","s","s">>, <<".","j","a","r">>, <<".","w","a","r">>,
    <<".","e","a","r">>, <<".","z","i","p">>, <<".","g","z">>, <<".","t","a","r">>,
    <<".","b","z","2">>, <<".","x","z">>, <<".","7","z">>, <<".","r","a","r">>,
    <<".","p","d","f">>, <<".","d","o","c">>, <<".","d","o","c","x">>, <<".","x","l","s">>,
    <<".","x","l","s","x">>, <<".","p","p","t">>, <<".","p","p","t","x">>,
    <<".","j","p","g">>, <<".","j","p","e","g">>, <<".","p","n","g">>, <<".","g","i","f">>,
    <<".","b","m","p">>, <<".","t","i","f","f">>, <<".","i","c","o">>, <<".","s","v","g">>,
    <<".","m","p","3">>, <<".","m","p","4">>, <<".","a","v","i">>, <<".","m","o","v">>,
    <<".","w","m","v">>, <<".","f","l","v">>, <<".","m","k","v">>, <<".","w","e","b","m">>,
    <<".","i","s","o">>, <<".","d","m","g">>, <<".","i","m","g">>, <<".","d","e","b">>,
    <<".","r","p","m">>, <<".","m","s","i">>, <<".","w","o","f","f">>,
    <<".","w","o","f","f","2">>, <<".","t","t","f">>, <<".","o","t","f">>,
    <<".","e","o","t">>, <<".","p","y","c">>, <<".","p","y","o">>, <<".","p","y","d">>
  }

\* default_excludes of create_default_exclude_file
default_excludes ==
  <<
    <<"#"," ","D","i","r","e","c","t","o","r","i","e","s"," ","t","o"," ","e","x","c","l","u","d","e"," ","f","r","o","m"," ","s","e","a","r","c","h"," ","(","o","n","e"," ","p","e","r"," ","l","i","n","e",")">>,
    <<"#"," ","L","i","n","e","s"," ","s","t","a","r","t","i","n","g"," ","w","i","t","h"," ","#"," ","a","r","e"," ","c","o","m","m","e","n","t","s">>,
    <<"l","o","g","s">>, <<".","g","i","t">>, <<".","s","v","n">>, <<".","h","g">>,
    <<"n","o","d","e","_","m","o","d","u","l","e","s">>, <<".","n","p","m">>,
    <<".","y","a","r","n">>, <<"v","e","n","d","o","r">>, <<"c","a","c","h","e">>,
    <<"t","m","p">>, <<"t","e","m","p">>, <<".","c","a","c","h","e">>,
    <<"b","u","i","l","d">>, <<"d","i","s","t">>, <<"t","a","r","g","e","t">>,
    <<".","i","d","e","a">>, <<".","v","s","c","o","d","e">>,
    <<".","D","S","_","S","t","o","r","e">>,
    <<"_","_","p","y","c","a","c","h","e","_","_">>,
    <<"*",".","e","g","g","-","i","n","f","o">>,
    <<".","p","y","t","e","s","t","_","c","a","c","h","e">>,
    <<".","c","o","v","e","r","a","g","e">>, <<"h","t","m","l","c","o","v">>,
    <<".","t","o","x">>, <<".","v","e","n","v">>, <<"v","e","n","v">>, <<"e","n","v">>,
    <<".","m","y","p","y","_","c","a","c","h","e">>,
    <<".","t","e","r","r","a","f","o","r","m">>,
    <<"b","o","w","e","r","_","c","o","m","p","o","n","e","n","t","s">>,
    <<"j","s","p","m","_","p","a","c","k","a","g","e","s">>,
    <<"w","e","b","_","m","o","d","u","l","e","s">>
  >>

\* f.read(1024) in is_binary_file
ChunkSize == 1024

\* sys.exit(1) of run's root checks and of main's `except Exception`
ErrorExit == 1

\* the exit status of a process that returns from main
SuccessExit == 0

\* ------------------------------------------------------------------
\* Binary Classifier
\* ------------------------------------------------------------------

NoType == [major |-> "none", minor |-> "none"]

\* mimetypes.guess_type(str(file_path))[0]: the type the standard table gives
\* the name's extension (posixpath.splitext: from the last dot of the name,
\* unless the name only starts with dots), tried as written and then
\* lower-cased. The table is restricted to the extensions of the model's names.
guess_type(p) ==
  LET n   == name_of(p)
      i   == rfind_dot(n)
      ext == IF i > 1 THEN SubSeq(n, i, Len(n)) ELSE <<>>
      e   == lower(ext)
  IN CASE e = <<".","t","x","t">>     -> [major |-> "text", minor |-> "plain"]
       [] e = <<".","c","s","v">>     -> [major |-> "text", minor |-> "csv"]
       [] e = <<".","j","s","o","n">> -> [major |-> "application", minor |-> "json"]
       [] e = <<".","x","m","l">>     -> [major |-> "application", minor |-> "xml"]
       [] e = <<".","p","d","f">>     -> [major |-> "application", minor |-> "pdf"]
       [] e = <<".","p","n","g">>     -> [major |-> "image", minor |-> "png"]
       [] e = <<".","w","a","v">>     -> [major |-> "audio", minor |-> "x-wav"]
       [] OTHER                       -> NoType

\* The condition of line 86: the resolved type is none of text/*,
\* application/json, application/xml, text/xml.
mime_is_binary(m) ==
  /\ m.major # "text"
  /\ ~(m.major = "application" /\ m.minor = "json")
  /\ ~(m.major = "application" /\ m.minor = "xml")
  /\ ~(m.major = "text" /\ m.minor = "xml")

Min(a, b) == IF a < b THEN a ELSE b
Max(a, b) == IF a > b THEN a ELSE b

\* f.read(1024): a file holds node.pad filler bytes (spaces) followed by
\* node.bytes; this is the part of node.bytes that lies in the first ChunkSize
\* bytes of the file. The filler holds no null byte.
read_chunk(node) ==
  SubSeq(node.bytes, 1, Min(Len(node.bytes), Max(0, ChunkSize - node.pad)))

\* A faulty is_binary_file: the extension check is missing.
is_binary_file_no_ext(p, node, sniff_ok) ==
  IF guess_type(p) # NoType /\ mime_is_binary(guess_type(p)) THEN TRUE
  ELSE IF ~sniff_ok THEN TRUE
  ELSE "NUL" \in Range(read_chunk(node))

\* A faulty is_binary_file: a name whose MIME type is not resolved is taken
\* for binary instead of being sniffed.
is_binary_file_mime_first(p, node, sniff_ok) ==
  IF lower(suffix(name_of(p))) \in binary_extensions THEN TRUE
  ELSE IF guess_type(p) = NoType THEN TRUE
  ELSE IF mime_is_binary(guess_type(p)) THEN TRUE
  ELSE IF ~sniff_ok THEN TRUE
  ELSE "NUL" \in Range(read_chunk(node))

\* is_binary_file(file_path); sniff_ok tells whether open(file_path, 'rb') and
\* the read succeed.
is_binary_file(p, node, sniff_ok) ==
  IF lower(suffix(name_of(p))) \in binary_extensions THEN TRUE
  ELSE IF guess_type(p) # NoType /\ mime_is_binary(guess_type(p)) THEN TRUE
  ELSE IF ~sniff_ok THEN TRUE
  ELSE "NUL" \in Range(read_chunk(node))

\* ------------------------------------------------------------------
\* Content Scanner
\* ------------------------------------------------------------------

\* bytes.decode('utf-8', errors='ignore'): undecodable bytes are dropped. (The
\* contents of the model hold no "\r", so text mode translates no newline.)
decode_utf8_ignore(bytes) == SelectSeq(bytes, LAMBDA b : b # "BAD")

\* bytes.decode('latin-1'): every byte is one character.
decode_latin1(bytes) ==
  [i \in 1..Len(bytes) |-> IF bytes[i] = "BAD" THEN "LAT" ELSE bytes[i]]

\* What search_file_content(file_path, domain) does with a file, given the
\* outcome of its three opens: [binary, read (the content was decoded and
\* tested), found (the return value)]. The filler bytes are spaces, which the
\* domain never holds, so the test is decided by node.bytes.
scan(p, node, domain, sniff_ok, utf8_ok, latin1_ok) ==
  IF is_binary_file(p, node, sniff_ok)
  THEN [binary |-> TRUE, read |-> FALSE, found |-> FALSE]
  ELSE IF utf8_ok
  THEN [binary |-> FALSE, read |-> TRUE,
        found |-> contains(decode_utf8_ignore(node.bytes), domain)]
  ELSE IF latin1_ok
  THEN [binary |-> FALSE, read |-> TRUE,
        found |-> contains(decode_latin1(node.bytes), domain)]
  ELSE [binary |-> FALSE, read |-> FALSE, found |-> FALSE]

\* A faulty search_file_content: the test ignores case.
search_file_content_nocase(p, node, domain, sniff_ok, utf8_ok, latin1_ok) ==
  /\ ~is_binary_file(p, node, sniff_ok)
  /\ \/ utf8_ok /\ contains(lower(decode_utf8_ignore(node.bytes)), lower(domain))
     \/ ~utf8_ok /\ latin1_ok
          /\ contains(lower(decode_latin1(node.bytes)), lower(domain))

\* search_file_content(file_path, domain): its return value.
search_file_content(p, node, domain, sniff_ok, utf8_ok, latin1_ok) ==
  scan(p, node, domain, sniff_ok, utf8_ok, latin1_ok).found

\* ------------------------------------------------------------------
\* Exclusion Loader
\* ------------------------------------------------------------------

\* '\n'.join(lines) + '\n'
RECURSIVE join_lines(_)
join_lines(lines) ==
  IF lines = <<>> THEN <<>>
  ELSE Head(lines) \o <<"\n">> \o join_lines(Tail(lines))

\* `for line in f`: the text cut after every "\n", the terminators kept.
RECURSIVE file_lines(_)
file_lines(text) ==
  IF text = <<>> THEN <<>>
  ELSE IF \E i \in 1..Len(text) : text[i] = "\n"
  THEN LET i == CHOOSE k \in 1..Len(text) :
                  text[k] = "\n" /\ \A j \in 1..(k - 1) : text[j] # "\n"
       IN <<SubSeq(text, 1, i)>> \o file_lines(SubSeq(text, i + 1, Len(text)))
  ELSE <<text>>

\* A faulty loop of load_excluded_dirs: the line is added as read, only its
\* terminator removed.
load_lines_verbatim(dirs, text) ==
  dirs \cup {SelectSeq(l, LAMBDA c : c # "\n") : l \in
               {m \in Range(file_lines(text)) :
                  strip(m) # <<>> /\ ~startswith(strip(m), <<"#">>)}}

\* The loop of load_excluded_dirs, lines 64-68, over the file's text: the
\* stripped lines that are neither empty nor comments are added to `dirs`.
load_lines(dirs, text) ==
  dirs \cup {strip(l) : l \in
               {m \in Range(file_lines(text)) :
                  strip(m) # <<>> /\ ~startswith(strip(m), <<"#">>)}}

\* A faulty is_excluded_dir: nothing is excluded.
is_excluded_dir_never(dirs, dir_path) == FALSE

\* is_excluded_dir(dir_path)

is_excluded_dir(dirs, dir_path) == name_of(dir_path) \in dirs

\* ------------------------------------------------------------------
\* The filesystem
\* ------------------------------------------------------------------

\* A regular file: `pad` filler bytes followed by `bytes`. perm is "ok" (every
\* open succeeds), "denied" (every open raises PermissionError) or "flaky"
\* (each open may raise an I/O error).
File(pad, bytes, perm) ==
  [kind |-> "file", pad |-> pad, bytes |-> bytes, perm |-> perm,
   searchable |-> TRUE]

\* A directory; one that is not searchable (mode r--) can be listed, but its
\* entries cannot be stat'ed and its subdirectories cannot be listed.
Dir(searchable) ==
  [kind |-> "dir", pad |-> 0, bytes |-> <<>>, perm |-> "ok",
   searchable |-> searchable]

\* An entry that is neither: a FIFO, a socket, a dangling symlink.
Other ==
  [kind |-> "other", pad |-> 0, bytes |-> <<>>, perm |-> "ok",
   searchable |-> TRUE]

Absent == [exists |-> FALSE, bytes |-> <<>>]

VARIABLES
  fs,              \* path -> node: the directories and files that exist
  exclude_file,    \* the file at self.exclude_dirs_file: [exists, readable, text]
  args,            \* the command line: [search_path, output, out_ok]
  domain,          \* self.domain
  pc,              \* the phase of the running process
  exit_code,       \* <<>> while the process runs, <<status>> once it has exited
  excluded_dirs,   \* self.excluded_dirs
  stack,           \* os.walk: the directories still to be listed
  files,           \* find_files: the entries of the listed directory not yet visited
  matching_files,  \* search_domain's list
  results,         \* search_domain's return value
  run_no,          \* which run of the tool this is
  out_before,      \* the output file as it was when this process started
  yielded,         \* history: the paths find_files has yielded in this run
  decoded,         \* history: the paths whose content was decoded and tested
  classified,      \* history: [path, sniff_ok, binary] of each is_binary_file call
  cause            \* history: why the process ended in Fatal, and in which phase

vars ==
  << fs, exclude_file, args, domain, pc, exit_code, excluded_dirs, stack, files,
     matching_files, results, run_no, out_before, yielded, decoded, classified,
     cause >>

\* The output file as [exists, bytes].
output_of(f, a) ==
  IF a.output \in DOMAIN f
  THEN [exists |-> TRUE, bytes |-> f[a.output].bytes]
  ELSE Absent

\* The filesystem with `bytes` written to the file at `path`.
write_file(f, path, bytes) ==
  [p \in DOMAIN f \cup {path} |->
     IF p = path THEN File(0, bytes, "ok") ELSE f[p]]

\* The lines save_results writes for a list of paths.
RECURSIVE render(_)
render(paths) ==
  IF paths = <<>> THEN <<>>
  ELSE path_str(Head(paths)) \o <<"\n">> \o render(Tail(paths))

\* The proper prefixes of a path, from the search root down.
ancestors(p, root) ==
  {SubSeq(p, 1, k) : k \in Len(root)..(Len(p) - 1)}

\* Whether stat(p) succeeds: every directory on the way is searchable.
stat_ok(f, p, root) == \A d \in ancestors(p, root) : f[d].searchable

\* os.scandir(top) inside os.walk, whose onerror is None: the entries of the
\* directory, none when it cannot be listed.
scandir(f, top, root) ==
  IF stat_ok(f, top, root)
  THEN {p \in DOMAIN f : Len(p) = Len(top) + 1 /\ SubSeq(p, 1, Len(top)) = top}
  ELSE {}

\* The orders in which a directory listing can come.
orders(S) ==
  {s \in [1..Cardinality(S) -> S] : \A x \in S : \E i \in DOMAIN s : s[i] = x}

\* The outcomes an open of a file with permission `perm` can have.
open_outcomes(perm) ==
  CASE perm = "ok"     -> {TRUE}
    [] perm = "denied" -> {FALSE}
    [] OTHER           -> BOOLEAN

\* main, lines 296-299: the domain gets a leading "@".
normalize_domain(d) == IF startswith(d, <<"@">>) THEN d ELSE <<"@">> \o d

\* ------------------------------------------------------------------
\* The inputs the model is run on: filesystems, exclusion files, arguments
\* ------------------------------------------------------------------

R   == <<"r">>
A   == <<"a">>
TMP == <<"t","m","p">>

\* The search roots /r and /tmp.
RootR   == <<R>>
RootTmp == <<TMP>>

TXT  == <<".","t","x","t">>
IMG  == <<".","i","m","g">>

OutName == <<"o",".","t","x","t">>

\* The domain every run searches for, as given with -d.
DomainArgs == { <<"x">>, <<"@","x">> }

HasDomain    == <<"u","@","x">>
OtherCase    == <<"u","@","X">>
SplitByBad   == <<"@","BAD","x">>

\* An exclusion file that lists tmp, with a comment and padded with blanks.
ListsTmp ==
  [exists |-> TRUE, readable |-> TRUE,
   text |-> <<"#"," ","c","\n"," ","t","m","p"," ","\n">>]

NoExcludeFile == [exists |-> FALSE, readable |-> TRUE, text |-> <<>>]

\* Where the output file is: inside the searched tree or beside it.
OutInside(root) == root \o <<OutName>>
OutOutside      == <<OutName>>

\* The command line.
Args(root, output, ok) ==
  [search_path |-> root, output |-> output, out_ok |-> ok]

\* root/ a<ext1>, d1/ b<ext2>, d1/d2/ c<ext3>
Tree(root, d1, d1_searchable, d2, k1, k2, k3) ==
  (root :> Dir(TRUE))
  @@ (root \o <<A \o k1.ext>> :> File(k1.pad, k1.bytes, k1.perm))
  @@ (root \o <<d1>> :> Dir(d1_searchable))
  @@ (root \o <<d1, <<"b">> \o k2.ext>> :> File(k2.pad, k2.bytes, k2.perm))
  @@ (root \o <<d1, d2>> :> Dir(TRUE))
  @@ (root \o <<d1, d2, <<"c">> \o k3.ext>> :> File(k3.pad, k3.bytes, k3.perm))

Kind(ext, pad, bytes, perm) ==
  [ext |-> ext, pad |-> pad, bytes |-> bytes, perm |-> perm]

TextMatch == Kind(TXT, 0, HasDomain, "ok")

WalkKinds ==
  { TextMatch,
    Kind(TXT, 0, OtherCase, "ok"),
    Kind(IMG, 0, HasDomain, "ok"),
    Kind(TXT, 0, SplitByBad, "ok") }

DeepKinds == { TextMatch, Kind(IMG, 0, HasDomain, "ok") }

\* An output file left by an earlier search, which holds the domain.
OldOutput == File(0, <<"/","u","@","x","\n">>, "ok")

World(f, e, a, d) == [fs |-> f, exclude_file |-> e, args |-> a, domain |-> d]

\* Trees of depth two with every choice of directory names, file kinds,
\* exclusion file and place of the output file.
WalkWorlds ==
  { World(IF o = "old" THEN write_file(t, OutInside(root), OldOutput.bytes) ELSE t,
          e,
          Args(root, IF o = "outside" THEN OutOutside ELSE OutInside(root), TRUE),
          <<"@","x">>) :
      <<root, t>> \in
        { <<r, Tree(r, d1, s, d2, k1, k2, k3)>> :
            r \in {RootR, RootTmp}, d1 \in {A, TMP}, s \in BOOLEAN, d2 \in {A, TMP},
            k1 \in WalkKinds, k2 \in WalkKinds, k3 \in DeepKinds },
      e \in {ListsTmp, NoExcludeFile},
      o \in {"outside", "inside", "old"} }

\* One file of every name, content and permission, for the classifier.
ClassifyNames ==
  { <<"a",".","t","x","t">>, <<"a",".","j","s","o","n">>, <<"a",".","x","m","l">>,
    <<"a",".","P","D","F">>, <<"a",".","I","M","G">>, <<"a",".","w","a","v">>,
    <<"a">>, <<".","i","m","g">> }

ClassifyContents ==
  { [pad |-> 0, bytes |-> HasDomain],
    [pad |-> 0, bytes |-> OtherCase],
    [pad |-> 0, bytes |-> SplitByBad],
    [pad |-> 0, bytes |-> <<>>],
    [pad |-> 0, bytes |-> <<"NUL","@","x">>],
    [pad |-> 0, bytes |-> <<"@","x","NUL">>],
    [pad |-> ChunkSize - 1, bytes |-> <<"NUL","@","x">>],
    [pad |-> ChunkSize, bytes |-> <<"NUL","@","x">>] }

ClassifyWorlds ==
  { World((RootR :> Dir(TRUE)) @@ (RootR \o <<n>> :> File(c.pad, c.bytes, p)),
          ListsTmp, Args(RootR, OutOutside, TRUE), <<"@","x">>) :
      n \in ClassifyNames, c \in ClassifyContents, p \in {"ok", "denied", "flaky"} }

\* Exclusion files of up to MaxLines lines, over one small tree.
ExcludeLines ==
  { <<>>, <<" ">>, <<"#","a">>, <<" ","#","a">>, <<"a">>, <<" ","a"," ">>,
    <<"t","m","p">>, <<"a","#">> }

ExcludeTexts ==
  { join_lines(ls) : ls \in UNION { [1..k -> ExcludeLines] : k \in 0..MaxLines } }
  \cup { <<"a">>, <<"a","\n","\n"," ","a">> }

LoadWorlds ==
  { World(Tree(RootR, A, TRUE, TMP, TextMatch, TextMatch, TextMatch),
          [exists |-> TRUE, readable |-> TRUE, text |-> t],
          Args(RootR, OutOutside, TRUE), <<"@","x">>) :
      t \in ExcludeTexts }

\* The remaining cases: no search root, a file as search root, an unreadable
\* exclusion file, an output file that cannot be opened, an entry that is no
\* regular file, a search root below a directory that is not searchable, a
\* domain given without its "@".
SmallTree == Tree(RootR, A, TRUE, TMP, TextMatch, TextMatch, TextMatch)

EdgeWorlds ==
  { World(SmallTree, ListsTmp, Args(<<<<"n">>>>, OutOutside, TRUE), <<"@","x">>),
    World(SmallTree, ListsTmp, Args(RootR \o <<A \o TXT>>, OutOutside, TRUE), <<"@","x">>),
    World(SmallTree, [ListsTmp EXCEPT !.readable = FALSE],
          Args(RootR, OutOutside, TRUE), <<"@","x">>),
    World(SmallTree, ListsTmp, Args(RootR, OutOutside, FALSE), <<"@","x">>),
    World(SmallTree @@ (RootR \o <<<<"p">>>> :> Other), ListsTmp,
          Args(RootR, OutOutside, TRUE), <<"@","x">>),
    World((<<<<"q">>>> :> Dir(FALSE)) @@ (<<<<"q">>, R>> :> Dir(TRUE)), ListsTmp,
          Args(<<<<"q">>, R>>, OutOutside, TRUE), <<"@","x">>) }
  \cup { World(SmallTree, ListsTmp, Args(RootR, OutInside(RootR), TRUE), d) : d \in DomainArgs }

Worlds == WalkWorlds \cup ClassifyWorlds \cup LoadWorlds \cup EdgeWorlds

\* ------------------------------------------------------------------
\* The process
\* ------------------------------------------------------------------

NoCause == [why |-> "none", phase |-> "none"]

\* A fresh process on world w (main up to the call of run).
Start(w) ==
  /\ fs = w.fs
  /\ exclude_file = w.exclude_file
  /\ args = w.args
  /\ domain = normalize_domain(w.domain)
  /\ pc = "Idle"
  /\ exit_code = <<>>
  /\ excluded_dirs = {}
  /\ stack = <<>>
  /\ files = {}
  /\ matching_files = <<>>
  /\ results = <<>>
  /\ run_no = 1
  /\ out_before = output_of(w.fs, w.args)
  /\ yielded = {}
  /\ decoded = {}
  /\ classified = {}
  /\ cause = NoCause

Init == \E w \in Worlds : Start(w)

Fatal(why, status) ==
  /\ pc' = "Fatal"
  /\ exit_code' = <<status>>
  /\ cause' = [why |-> why, phase |-> pc]

\* A faulty run: the root checks report but do not exit.
run_without_exit ==
  /\ pc = "Idle"
  /\ pc' = "LoadExclusions"
  /\ UNCHANGED << fs, exclude_file, args, domain, exit_code, excluded_dirs, stack,
                  files, matching_files, results, run_no, out_before, yielded,
                  decoded, classified, cause >>

\* run, lines 217-223: the search root must exist and be a directory. When the
\* root cannot be stat'ed (a directory above it is not searchable),
\* Path.exists() raises PermissionError on the interpreters that re-raise it
\* and answers False on those that do not.
run ==
  /\ pc = "Idle"
  /\ IF ~stat_ok(fs, args.search_path, <<Head(args.search_path)>>)
     THEN \E raises \in BOOLEAN :
            Fatal(IF raises THEN "error" ELSE "root", ErrorExit)
     ELSE IF args.search_path \in DOMAIN fs /\ fs[args.search_path].kind = "dir"
     THEN pc' = "LoadExclusions" /\ UNCHANGED <<exit_code, cause>>
     ELSE Fatal("root", ErrorExit)
  /\ UNCHANGED << fs, exclude_file, args, domain, excluded_dirs, stack, files,
                  matching_files, results, run_no, out_before, yielded, decoded,
                  classified >>

\* search_domain, lines 175-187: load_excluded_dirs (which first creates the
\* default file when there is none), then the walk starts at the search root.
\* An exclusion file that cannot be opened raises out of run.
load_excluded_dirs ==
  /\ pc = "LoadExclusions"
  /\ LET file == IF exclude_file.exists THEN exclude_file
                 ELSE [exists |-> TRUE, readable |-> TRUE,
                       text |-> join_lines(default_excludes)]
     IN /\ exclude_file' = file
        /\ IF file.readable
           THEN /\ excluded_dirs' = load_lines(excluded_dirs, file.text)
                /\ stack' = <<args.search_path>>
                /\ pc' = "Walk"
                /\ UNCHANGED <<exit_code, cause>>
           ELSE /\ Fatal("error", ErrorExit)
                /\ UNCHANGED <<excluded_dirs, stack>>
  /\ UNCHANGED << fs, args, domain, files, matching_files, results, run_no,
                  out_before, yielded, decoded, classified >>

\* find_files, lines 148-153: os.walk lists the next directory and the excluded
\* subdirectories are removed from its list before it descends.
find_files ==
  /\ pc = "Walk"
  /\ files = {}
  /\ stack # <<>>
  /\ LET top     == Head(stack)
         entries == scandir(fs, top, args.search_path)
         dirs    == {e \in entries : fs[e].kind = "dir"}
         kept    == {d \in dirs : ~is_excluded_dir(excluded_dirs, d)}
     IN /\ \E order \in orders(kept) : stack' = order \o Tail(stack)
        /\ files' = entries \ dirs
  /\ UNCHANGED << fs, exclude_file, args, domain, pc, exit_code, excluded_dirs,
                  matching_files, results, run_no, out_before, yielded, decoded,
                  classified, cause >>

\* find_files, line 163, on an entry whose stat raises PermissionError:
\* Path.is_file() re-raises it (it only swallows ENOENT, ENOTDIR, EBADF and
\* ELOOP up to Python 3.13), and nothing on the way up catches it before
\* main's `except Exception`.
is_file_raises ==
  /\ pc = "Walk"
  /\ \E f \in files : ~stat_ok(fs, f, args.search_path)
  /\ Fatal("error", ErrorExit)
  /\ UNCHANGED << fs, exclude_file, args, domain, excluded_dirs, stack, files,
                  matching_files, results, run_no, out_before, yielded, decoded,
                  classified >>

\* find_files, lines 161-163, on an entry for which is_file() is False: one
\* that is no regular file, or, on the interpreters whose is_file() swallows
\* every OSError, one that cannot be stat'ed. It is not yielded.
skip_entry ==
  /\ pc = "Walk"
  /\ \E f \in files :
       /\ ~stat_ok(fs, f, args.search_path) \/ fs[f].kind # "file"
       /\ files' = files \ {f}
  /\ UNCHANGED << fs, exclude_file, args, domain, pc, exit_code, excluded_dirs,
                  stack, matching_files, results, run_no, out_before, yielded,
                  decoded, classified, cause >>

\* One turn of search_domain's loop, lines 189-198: find_files yields the next
\* regular file and search_file_content classifies and scans it.
search_domain ==
  /\ pc = "Walk"
  /\ \E f \in files :
       /\ stat_ok(fs, f, args.search_path)
       /\ fs[f].kind = "file"
       /\ \E sniff_ok, utf8_ok, latin1_ok \in open_outcomes(fs[f].perm) :
            LET r == scan(f, fs[f], domain, sniff_ok, utf8_ok, latin1_ok)
            IN /\ matching_files' =
                    IF search_file_content(f, fs[f], domain, sniff_ok, utf8_ok,
                                           latin1_ok)
                    THEN Append(matching_files, f)
                    ELSE matching_files
               /\ decoded' = IF r.read THEN decoded \cup {f} ELSE decoded
               /\ classified' = classified \cup
                    {[path |-> f, sniff_ok |-> sniff_ok, binary |-> r.binary]}
       /\ yielded' = yielded \cup {f}
       /\ files' = files \ {f}
  /\ UNCHANGED << fs, exclude_file, args, domain, pc, exit_code, excluded_dirs,
                  stack, results, run_no, out_before, cause >>

\* A faulty return of search_domain: the list as accumulated.
sorted_unsorted(matching) == matching

\* search_domain's return, line 207: sorted(set(matching_files)).

sorted_results(matching) == sorted_set(Range(matching))

\* search_domain, lines 200-207: the walk is exhausted.
search_done ==
  /\ pc = "Walk"
  /\ files = {}
  /\ stack = <<>>
  /\ results' = sorted_results(matching_files)
  /\ pc' = "Report"
  /\ UNCHANGED << fs, exclude_file, args, domain, exit_code, excluded_dirs, stack,
                  files, matching_files, run_no, out_before, yielded, decoded,
                  classified, cause >>

\* save_results and the rest of run, lines 209-239; an output file that cannot
\* be opened for writing raises out of run.
save_results ==
  /\ pc = "Report"
  /\ IF args.out_ok
     THEN /\ fs' = write_file(fs, args.output, render(results))
          /\ pc' = "Done"
          /\ exit_code' = <<SuccessExit>>
          /\ UNCHANGED cause
     ELSE /\ Fatal("error", ErrorExit)
          /\ UNCHANGED fs
  /\ UNCHANGED << exclude_file, args, domain, excluded_dirs, stack, files,
                  matching_files, results, run_no, out_before, yielded, decoded,
                  classified >>

\* A faulty interrupt: the output file is opened and truncated whatever the
\* phase.
interrupted_writes_anywhere(phase, res) ==
  {render(SubSeq(res, 1, k)) : k \in 0..Len(res)}

\* What a KeyboardInterrupt raised in phase `phase` can have written to the
\* output file: nothing outside save_results; inside it, the file is truncated
\* and holds the lines written so far.
interrupted_writes(phase, res) ==
  IF phase = "Report"
  THEN {render(SubSeq(res, 1, k)) : k \in 0..Len(res)}
  ELSE {}

\* main, lines 303-305: a KeyboardInterrupt, which can arrive in any phase.
KeyboardInterrupt ==
  /\ pc \in {"Idle", "LoadExclusions", "Walk", "Report"}
  /\ \E written \in BOOLEAN :
       IF written
       THEN /\ args.out_ok
            /\ \E bytes \in interrupted_writes(pc, results) :
                 fs' = write_file(fs, args.output, bytes)
       ELSE UNCHANGED fs
  /\ Fatal("interrupt", ErrorExit)
  /\ UNCHANGED << exclude_file, args, domain, excluded_dirs, stack, files,
                  matching_files, results, run_no, out_before, yielded, decoded,
                  classified >>

\* The tool is started again, with the same arguments, on the filesystem the
\* last run left.
Rerun ==
  /\ pc = "Done"
  /\ run_no < MaxRuns
  /\ pc' = "Idle"
  /\ exit_code' = <<>>
  /\ excluded_dirs' = {}
  /\ stack' = <<>>
  /\ files' = {}
  /\ matching_files' = <<>>
  /\ results' = <<>>
  /\ run_no' = run_no + 1
  /\ out_before' = output_of(fs, args)
  /\ yielded' = {}
  /\ decoded' = {}
  /\ classified' = {}
  /\ cause' = NoCause
  /\ UNCHANGED <<fs, exclude_file, args, domain>>

Next ==
  \/ run
  \/ load_excluded_dirs
  \/ find_files
  \/ is_file_raises
  \/ skip_entry
  \/ search_domain
  \/ search_done
  \/ save_results
  \/ KeyboardInterrupt
  \/ Rerun

Spec == Init /\ [][Next]_vars

\* ------------------------------------------------------------------
\* Reading the result back
\* ------------------------------------------------------------------

\* The components of a path string: the text between its "/"s.
RECURSIVE split_path(_)
split_path(s) ==
  IF s = <<>> THEN <<>>
  ELSE LET rest == Tail(s)
           n    == IF \E i \in 1..Len(rest) : rest[i] = "/"
                   THEN (CHOOSE i \in 1..Len(rest) :
                           rest[i] = "/" /\ \A j \in 1..(i - 1) : rest[j] # "/") - 1
                   ELSE Len(rest)
       IN <<SubSeq(rest, 1, n)>> \o split_path(SubSeq(rest, n + 1, Len(rest)))

\* The lines of the output file, without their terminators.
output_lines ==
  LET ls == file_lines(output_of(fs, args).bytes)
  IN [i \in 1..Len(ls) |-> SelectSeq(ls[i], LAMBDA c : c # "\n")]

\* The paths the output file names, line by line.
output_paths == [i \in 1..Len(output_lines) |-> split_path(output_lines[i])]

\* The bytes a file held while this run scanned the tree: the run itself only
\* writes the output file, at its end.
scanned_bytes(p) == IF p = args.output THEN out_before.bytes ELSE fs[p].bytes

\* The lines of the exclusion file that are neither blank nor comments.
rule_lines ==
  {l \in Range(file_lines(exclude_file.text)) :
     /\ \E i \in 1..Len(l) : l[i] \notin Whitespace
     /\ LET k == CHOOSE i \in 1..Len(l) :
                   l[i] \notin Whitespace /\ \A j \in 1..(i - 1) : l[j] \in Whitespace
        IN l[k] # "#"}

\* A line as it appears in the file, without its line terminator.
verbatim(l) == SelectSeq(l, LAMBDA c : c # "\n")

\* The directories of a path that lie strictly between `root` and the file.
dirs_below(p, root) == {p[k] : k \in (Len(root) + 1)..(Len(p) - 1)}

\* Whether a file's extension is in the binary deny-list.
denied_extension(p) == lower(suffix(name_of(p))) \in binary_extensions

\* ------------------------------------------------------------------
\* C1
\* ------------------------------------------------------------------

\* C1 as stated: no yielded file lies beneath a directory, anywhere on its
\* path, whose name is in the ExclusionSet.
C1_NoYieldBeneathExcludedName ==
  \A p \in yielded : \A k \in 1..(Len(p) - 1) : p[k] \notin excluded_dirs

\* C1 (amended): no file yielded by find_files lies beneath a directory, at any
\* depth below the search root, whose name is in the ExclusionSet; the search
\* root itself is never tested against the set.
C1_NoYieldBeneathExcludedSubdir ==
  \A p \in yielded : dirs_below(p, args.search_path) \cap excluded_dirs = {}

\* The walk is over, files were yielded, and a regular file two levels beneath
\* an excluded directory exists.
C1_Witness ==
  /\ pc = "Report"
  /\ yielded # {}
  /\ \E p \in DOMAIN fs :
       /\ fs[p].kind = "file"
       /\ Len(p) = Len(args.search_path) + 3
       /\ p[Len(args.search_path) + 1] \in excluded_dirs
       /\ p[Len(args.search_path) + 2] \notin excluded_dirs

\* ------------------------------------------------------------------
\* C2
\* ------------------------------------------------------------------

SteadyFiles == \A p \in DOMAIN fs : fs[p].perm # "flaky"

\* C3: a second run with the same arguments, on the filesystem the first run
\* left and with nothing outside the tool changing in between, writes the
\* output file the first run wrote.
C3_SecondRunSameOutput ==
  (pc = "Done" /\ run_no > 1 /\ SteadyFiles) => output_of(fs, args) = out_before

\* ------------------------------------------------------------------
\* C4
\* ------------------------------------------------------------------

\* C4 as stated: after a run that reached Done the output lines are the
\* matching paths, each once, in ascending lexicographic order of the lines.
C4_OutputSortedAsStrings ==
  pc = "Done" =>
    /\ Range(output_paths) = Range(matching_files)
    /\ \A i, j \in 1..Len(output_lines) :
         i < j => str_lt(output_lines[i], output_lines[j])

\* C4 (amended): after a run that reached Done the output lines are the
\* matching paths, one per line and each once, in ascending order of their
\* component lists (pathlib's order: component by component, each compared as
\* a string), which is not the order of the lines as strings.
C4_OutputSortedByComponents ==
  pc = "Done" =>
    /\ Range(output_paths) = Range(matching_files)
    /\ Len(output_paths) = Cardinality(Range(matching_files))
    /\ \A i, j \in 1..Len(output_paths) :
         i < j => path_lt(output_paths[i], output_paths[j])

\* A finished run wrote two paths whose order as strings is the reverse.
C4_Witness ==
  /\ pc = "Done"
  /\ \E i, j \in 1..Len(output_lines) :
       i < j /\ str_lt(output_lines[j], output_lines[i])

\* ------------------------------------------------------------------
\* C5
\* ------------------------------------------------------------------

\* C5: the content of a file whose extension is in the binary deny-list is
\* never decoded and tested, and the file is never among the matches.
C5_DeniedExtensionNeverScanned ==
  \A p \in DOMAIN fs :
    denied_extension(p) => p \notin decoded /\ p \notin Range(matching_files)

\* A readable file with a deny-listed extension, no resolved MIME type and no
\* null byte, whose content holds the domain, went through the classifier.
C5_Witness ==
  \E c \in classified :
    /\ denied_extension(c.path)
    /\ guess_type(c.path) = NoType
    /\ c.sniff_ok
    /\ "NUL" \notin Range(fs[c.path].bytes)
    /\ contains(fs[c.path].bytes, domain)

\* ------------------------------------------------------------------
\* C6
\* ------------------------------------------------------------------

\* C6: a run interrupted during the walk and scan has stopped with a non-zero
\* exit status, and the output file is as it was before the run or holds the
\* complete sorted list of what was accumulated.
C6_InterruptedWalkLeavesOutput ==
  (cause.why = "interrupt" /\ cause.phase = "Walk") =>
    /\ pc = "Fatal"
    /\ Len(exit_code) = 1
    /\ exit_code[1] # 0
    /\ \/ output_of(fs, args) = out_before
       \/ output_of(fs, args) =
            [exists |-> TRUE, bytes |-> render(sorted_set(Range(matching_files)))]

\* A run was interrupted during the walk after it had found a match.
C6_Witness ==
  /\ cause.why = "interrupt"
  /\ cause.phase = "Walk"
  /\ matching_files # <<>>

\* ------------------------------------------------------------------
\* C7
\* ------------------------------------------------------------------

\* C7: no error on an individual file during the walk, classification or scan
\* aborts the run.
C7_FileErrorNeverAborts ==
  ~(pc = "Fatal" /\ cause.why = "error" /\ cause.phase = "Walk")

\* ------------------------------------------------------------------
\* C8
\* ------------------------------------------------------------------

\* The steps of the linear sequence; Done to Idle is the start of another run.
LinearStep(from, to) ==
  \/ from = "Idle" /\ to = "LoadExclusions"
  \/ from = "LoadExclusions" /\ to = "Walk"
  \/ from = "Walk" /\ to = "Report"
  \/ from = "Report" /\ to = "Done"
  \/ from = "Done" /\ to = "Idle"

RootIsDirectory ==
  /\ stat_ok(fs, args.search_path, <<Head(args.search_path)>>)
  /\ args.search_path \in DOMAIN fs
  /\ fs[args.search_path].kind = "dir"

\* C8 as stated: a run follows Idle, LoadExclusions, Walk+Scan, Report, Done;
\* it leaves the sequence only from Idle on an invalid root and from Walk+Scan
\* on an interrupt.
C8_OnlyTwoWaysToFatal ==
  [][ pc' # pc =>
        \/ LinearStep(pc, pc')
        \/ pc = "Idle" /\ pc' = "Fatal" /\ cause'.why = "root"
        \/ pc = "Walk" /\ pc' = "Fatal" /\ cause'.why = "interrupt" ]_vars

\* C8 (amended): a run follows Idle, LoadExclusions, Walk+Scan, Report, Done,
\* leaving Idle for LoadExclusions only with a search root that is a
\* directory; it ends in Fatal from Idle on a root that is missing or no
\* directory, and from any of Idle, LoadExclusions, Walk+Scan and Report on a
\* user interrupt or an uncaught error; nothing leaves Fatal.
C8_LinearWithFatalFromEveryPhase ==
  [][ pc' # pc =>
        \/ LinearStep(pc, pc') /\ (pc = "Idle" => RootIsDirectory)
        \/ pc = "Idle" /\ pc' = "Fatal" /\ cause'.why = "root"
        \/ /\ pc \in {"Idle", "LoadExclusions", "Walk", "Report"}
           /\ pc' = "Fatal"
           /\ cause'.why \in {"interrupt", "error"} ]_vars

\* Runs have ended in Fatal for an error outside the walk: the exclusion file
\* could not be read or the output file could not be written.
C8_Witness ==
  /\ pc = "Fatal"
  /\ cause.why = "error"
  /\ cause.phase \in {"LoadExclusions", "Report"}

\* ------------------------------------------------------------------
\* C9
\* ------------------------------------------------------------------

\* C9 as stated: once loaded, the ExclusionSet is the set of the file's lines,
\* as they appear in it, that are neither blank nor comments.
C9_ExclusionSetVerbatim ==
  pc \in {"Walk", "Report", "Done"} =>
    excluded_dirs = {verbatim(l) : l \in rule_lines}

\* C9 (amended): once loaded, the ExclusionSet is the set of the file's lines
\* that are neither blank nor comments, each with its leading and trailing
\* whitespace removed.
C9_ExclusionSetStripped ==
  pc \in {"Walk", "Report", "Done"} =>
    excluded_dirs = {strip(l) : l \in rule_lines}

\* An exclusion file with a rule line padded with blanks was loaded.
C9_Witness ==
  /\ pc = "Walk"
  /\ \E l \in rule_lines : strip(l) # verbatim(l)

\* ------------------------------------------------------------------
\* C10
\* ------------------------------------------------------------------

\* Whether the MIME type resolved from a name is one the classifier takes for
\* text: text/*, application/json, application/xml, text/xml.
TextualType(m) ==
  \/ m.major = "text"
  \/ m.major = "application" /\ m.minor \in {"json", "xml"}

\* Whether a null byte is among the first ChunkSize bytes of a file.
NullInFirstChunk(node) ==
  \E i \in 1..Len(node.bytes) : node.bytes[i] = "NUL" /\ node.pad + i <= ChunkSize

\* C10: every call of is_binary_file returns binary for a deny-listed
\* extension; else binary for a resolved MIME type that is not textual; else
\* binary when the first 1024 bytes hold a null byte or cannot be read; else
\* text. An unresolved MIME type always leaves the decision to the sniff.
C10_ClassifierDecision ==
  \A c \in classified :
    LET m     == guess_type(c.path)
        sniff == ~c.sniff_ok \/ NullInFirstChunk(fs[c.path])
    IN /\ denied_extension(c.path) => c.binary
       /\ (~denied_extension(c.path) /\ m # NoType /\ ~TextualType(m)) => c.binary
       /\ (~denied_extension(c.path) /\ m # NoType /\ TextualType(m)) =>
            (c.binary <=> sniff)
       /\ (~denied_extension(c.path) /\ m = NoType) => (c.binary <=> sniff)

\* A file without a resolved MIME type, whose only null byte lies past the
\* first 1024 bytes, was sniffed and classified as text.
C10_Witness ==
  \E c \in classified :
    /\ ~denied_extension(c.path)
    /\ guess_type(c.path) = NoType
    /\ c.sniff_ok
    /\ "NUL" \in Range(fs[c.path].bytes)
    /\ ~c.binary

====
